---- MODULE Spec2Model ----
(***************************************************************************)
(* turbo-delete (src/src/main.rs): for every path argument, remove the     *)
(* file or the directory tree it names.  A directory is scanned, its       *)
(* entries are grouped by depth, one pool task per depth removes the       *)
(* entries of that depth in parallel, and after all tasks have been        *)
(* awaited a root that is still there gets its read-only attributes        *)
(* cleared and one last recursive removal.                                 *)
(*                                                                         *)
(* The file system is modelled as a small universe of nodes.  A path is    *)
(* the sequence of the names on it; the node a path denotes is its last    *)
(* name.  The link "l" inside the directory "R" points to the directory    *)
(* "O", which lies outside "R".                                            *)
(*                                                                         *)
(* Spec is the whole run, the scan delivering its entries in walk order;   *)
(* FairSpec adds that the threads keep running; SpecScan takes the scan in *)
(* every order and follows the plan up to the last submission; SpecQuotes  *)
(* is the stripping of the quotes of one argument, byte by byte.           *)
(***************************************************************************)
EXTENDS Integers, Sequences, FiniteSets, TLC

\* ------------------------------------------------------------------ bounds
\* Most file-system nodes that exist inside the directory "R" (itself included;
\* the node behind the link counts).
MaxEntries == 3
\* Most path arguments on the command line.
MaxArgs == 2
\* Most nodes that are faulty (locked, attributes not settable, not walkable).
MaxFaults == 1

\* ---------------------------------------------------------- the file system
Universe == {"R", "a", "f", "g", "h", "i", "l", "O", "x", "F"}

\* The directory a node lies in; "/" is the working directory, which is
\* always there and writable.
Parent(n) ==
  CASE n = "a" -> "R"
    [] n = "f" -> "a"
    [] n \in {"g", "h", "i"} -> "R"
    [] n = "l" -> "R"
    [] n = "x" -> "O"
    [] OTHER -> "/"

Kind(n) ==
  CASE n \in {"R", "a", "O"} -> "dir"
    [] n = "l" -> "link"
    [] OTHER -> "file"

\* The directory a symbolic link points to.
LinkTarget(n) == "O"

\* Every path the model names, parents before children.
AllPaths ==
  << <<"R">>, <<"R", "a">>, <<"R", "a", "f">>, <<"R", "g">>, <<"R", "h">>,
     <<"R", "i">>, <<"R", "l">>, <<"R", "l", "x">>, <<"F">> >>

\* The path arguments a run may be given; "nope" names nothing.
Targets == { <<"R">>, <<"F">>, <<"nope">> }

Last(p) == p[Len(p)]

IsPrefix(r, p) == Len(r) <= Len(p) /\ \A i \in 1..Len(r) : r[i] = p[i]

RECURSIVE Ancestors(_)
Ancestors(n) ==
  IF Parent(n) = "/" THEN {} ELSE {Parent(n)} \cup Ancestors(Parent(n))

\* The nodes physically inside directory d (a link's target is not).
Desc(d) == {n \in Universe : d \in Ancestors(n)}

VARIABLES
  exists,         \* exists[n]: node n is on disk
  ro,             \* ro[n]: node n carries the read-only attribute
  ro0,            \* the attributes at the start of the run
  os,             \* "windows": a read-only node cannot be removed;
                  \* "unix": the children of a read-only directory cannot
  locked,         \* nodes whose removal always fails (held open, ACL)
  noperm,         \* nodes whose permissions cannot be set
  walkErr,        \* nodes below "R" for which a directory walk yields an
                  \* error item
  args,           \* paths: the arguments after the program name, as the
                  \* paths they name once their quotes are stripped
  target_path,    \* an argument as it was typed, byte by byte
  path_str,       \* the argument after the quotes were stripped
  pc,             \* where the main thread is
  outcome,        \* per processed argument, what was reported for it
  success_count,
  error_count,
  entries,        \* the entries of the scan of the current directory
  tree,           \* depth -> the paths of that depth
  handles,        \* the depths whose task was handed to the pool, in order
  awaited,        \* how many handles have been awaited
  jobs,           \* per entry of the scan, the state of its removal and
                  \* what delete_entry returned for it
  bar,            \* the progress bar: its length and its position
  todo,           \* the paths set_folder_writable has yet to make writable
  summary         \* the final summary printed

fsVars == <<exists, ro>>
envVars == <<ro0, os, locked, noperm, walkErr, args, target_path, path_str>>
planVars == <<entries, tree, handles, awaited, jobs, bar>>
countVars == <<outcome, success_count, error_count>>
vars == <<exists, ro, ro0, os, locked, noperm, walkErr, args, target_path,
          path_str, pc, outcome, success_count, error_count, entries, tree,
          handles, awaited, jobs, bar, todo, summary>>

\* ------------------------------------------------ std::path and std::fs
\* Path::exists: every name on the path is there, links followed.
path_exists(p) ==
  \A i \in 1..Len(p) :
     /\ p[i] \in Universe
     /\ exists[p[i]]
     /\ (Kind(p[i]) = "link" => exists[LinkTarget(p[i])])

\* symlink_metadata succeeds: as path_exists, the last name not followed.
lpath_exists(p) ==
  \A i \in 1..Len(p) :
     /\ p[i] \in Universe
     /\ exists[p[i]]
     /\ (i < Len(p) /\ Kind(p[i]) = "link" => exists[LinkTarget(p[i])])

\* The node whose metadata a path yields (metadata follows a final link).
Phys(p) == IF Kind(Last(p)) = "link" THEN LinkTarget(Last(p)) ELSE Last(p)

is_dir(p) == path_exists(p) /\ Kind(Phys(p)) = "dir"

\* No file branch in main: every existing path is handled as a directory.
is_file_never(p) == FALSE

is_file(p) == path_exists(p) /\ Kind(Phys(p)) = "file"

\* Whether the operating system refuses to remove node n.
Blocked(n) ==
  \/ n \in locked
  \/ os = "windows" /\ ro[n]
  \/ os = "unix" /\ Parent(n) # "/" /\ ro[Parent(n)]

\* std::fs::remove_file(p) succeeds: the path names a node that is not a
\* directory and that the operating system lets go.
remove_file_ok(p) ==
  lpath_exists(p) /\ Kind(Last(p)) # "dir" /\ ~Blocked(Last(p))

\* The nodes std::fs::remove_dir_all(p) can turn to next: the existing nodes
\* of the tree at p with nothing left inside them.  A link is removed as a
\* link, never followed.
Leaves(p) ==
  IF ~lpath_exists(p) THEN {}
  ELSE {n \in Desc(Last(p)) \cup {Last(p)} :
          exists[n] /\ \A c \in Universe : Parent(c) = n => ~exists[c]}

Removed(n) == [exists EXCEPT ![n] = FALSE]

\* ------------------------------------------------------------ set_writable
\* std::fs::metadata(path) and std::fs::set_permissions(path, perms) both
\* return Ok, so that neither unwrap() panics.
set_writable_ok(p) == path_exists(p) /\ Phys(p) \notin noperm

\* set_writable without the set_permissions call: nothing reaches the disk.
set_writable_unsaved(r, p) == r

\* The attributes after set_writable(p): perms.set_readonly(false).
set_writable(r, p) == [r EXCEPT ![Phys(p)] = FALSE]

\* --------------------------------------------------------- jwalk::WalkDir
\* The walk started below the root (min_depth(1)): the root is no item.
WalkItems_without_root(root) ==
  LET Reached(p) ==
        /\ IsPrefix(root, p)
        /\ Len(p) > Len(root)
        /\ lpath_exists(p)
        /\ \A i \in Len(root)..(Len(p) - 1) : p[i] \notin walkErr
      ps == SelectSeq(AllPaths, Reached)
  IN  [i \in 1..Len(ps) |->
         [ok |-> Last(ps[i]) \notin walkErr,
          path |-> ps[i],
          depth |-> Len(ps[i]) - Len(root)]]

\* The items WalkDir::new(root).follow_links(true).skip_hidden(false)
\* yields: one per path under root, the root included at depth 0; an entry
\* that cannot be read is an error item, and nothing below it is walked.
WalkItems(root) ==
  LET Reached(p) ==
        /\ IsPrefix(root, p)
        /\ lpath_exists(p)
        /\ \A i \in Len(root)..(Len(p) - 1) : p[i] \notin walkErr
      ps == SelectSeq(AllPaths, Reached)
  IN  [i \in 1..Len(ps) |->
         [ok |-> Last(ps[i]) \notin walkErr,
          path |-> ps[i],
          depth |-> Len(ps[i]) - Len(root)]]

\* .map(|v| v.ok()).filter(Option::is_some).collect::<Option<Vec<_>>>():
\* collecting yields None when an item is None, and the filter before it
\* lets only Some items through.
ScanCollect(items) ==
  LET opts == [i \in 1..Len(items) |->
                 [some |-> items[i].ok, val |-> items[i]]]
      IsSome(o) == o.some
      kept == SelectSeq(opts, IsSome)
  IN  IF \E i \in 1..Len(kept) : ~kept[i].some
      THEN [some |-> FALSE, val |-> << >>]
      ELSE [some |-> TRUE, val |-> [i \in 1..Len(kept) |-> kept[i].val]]

\* set_folder_writable's walk: the filter keeps the Ok items whose path
\* exists (an Err item maps to false), and the map after it exits the
\* process on an Err item.
RepairCollect(items) ==
  LET Keep(v) == IF v.ok THEN path_exists(v.path) ELSE FALSE
      kept == SelectSeq(items, Keep)
  IN  IF \E i \in 1..Len(kept) : ~kept[i].ok
      THEN [exit |-> TRUE, val |-> {}]
      ELSE [exit |-> FALSE, val |-> {kept[i].path : i \in 1..Len(kept)}]

\* tree.insert(depth, vec![entry.path()]): the bucket of a depth is
\* replaced by every entry of that depth, and only the last one stays.
Bucketize_overwriting(es) ==
  LET depths == {es[i].depth : i \in 1..Len(es)}
  IN  [d \in depths |->
         LET AtDepth(e) == e.depth = d
             sel == SelectSeq(es, AtDepth)
         IN  << sel[Len(sel)].path >>]

\* tree.entry(depth).or_insert_with(Vec::new).push(entry.path())
Bucketize(es) ==
  LET depths == {es[i].depth : i \in 1..Len(es)}
  IN  [d \in depths |->
         LET AtDepth(e) == e.depth = d
             sel == SelectSeq(es, AtDepth)
         IN  [i \in 1..Len(sel) |-> sel[i].path]]

Range(s) == {s[i] : i \in 1..Len(s)}

Max(S) == CHOOSE m \in S : \A k \in S : k <= m

Min(S) == CHOOSE m \in S : \A k \in S : m <= k

\* bar.inc(1)
bar_inc(b) == [b EXCEPT !.pos = @ + 1]

\* ------------------------------------------------------------------- Init
\* The nodes inside "R", by path.
Inside == {"R", "a", "f", "g", "h", "i", "l", "x"}

\* The nodes of a directory with a subdirectory and a link in it.
Deep == {"R", "a", "f", "g", "l", "x"}

\* The nodes of a directory that holds nothing but files.
Flat == {"R", "g", "h", "i"}

Named(as, n) == \E i \in 1..Len(as) : as[i] = <<n>>

\* The directory of a run with several arguments or with faulty nodes: "R"
\* with at most the file "g" in it.
Shallow == {"R", "g"}

\* The nodes of a start state: children lie in existing directories, the
\* link and the directory it points to come together, "R" and "F" are there
\* when they are named on the command line, and "R" holds at most k entries,
\* all of them among the nodes in.
Layout(e, as, in, k) ==
  /\ \A n \in Universe : e[n] /\ Parent(n) # "/" => e[Parent(n)]
  /\ e["l"] <=> e["O"]
  /\ e["R"] <=> Named(as, "R")
  /\ e["F"] <=> Named(as, "F")
  /\ \A n \in Inside : e[n] => n \in in
  /\ Cardinality({n \in Inside : e[n]}) <= k

\* The attribute only matters where the operating system looks at it: on
\* every node under "windows", on directories under "unix".  A link has no
\* attributes of its own: metadata and set_permissions follow it.
MayBeReadOnly(o, n) ==
  Kind(n) # "link" /\ (o = "windows" \/ Kind(n) = "dir")

\* The start states with the command line as, a directory of at most k
\* entries among the nodes in, and at most m faulty nodes.
Start(as, in, k, m) ==
  /\ args = as
  /\ exists \in {e \in [Universe -> BOOLEAN] : Layout(e, as, in, k)}
  /\ os \in {"windows", "unix"}
  /\ ro \in {r \in [Universe -> BOOLEAN] :
               \A n \in Universe : r[n] => exists[n] /\ MayBeReadOnly(os, n)}
  /\ ro0 = ro
  /\ locked \in SUBSET {n \in Inside \cup {"F"} : exists[n]}
  /\ noperm \in SUBSET {n \in Universe : exists[n]}
  /\ walkErr \in SUBSET {n \in Inside \ {"R"} : exists[n]}
  /\ Cardinality(locked) + Cardinality(noperm) + Cardinality(walkErr) <= m

ArgLists == UNION {[1..k -> Targets] : k \in 0..MaxArgs}

\* Either one directory of up to MaxEntries sound entries, or one directory
\* of plain files, or up to MaxArgs arguments, a shallow directory and up to
\* MaxFaults faulty nodes.
Init ==
  /\ \/ Start(<< <<"R">> >>, Deep, MaxEntries, 0)
     \/ /\ Start(<< <<"R">> >>, Flat, Cardinality(Flat), 0)
        /\ ro = [n \in Universe |-> FALSE]
     \/ \E as \in ArgLists : Start(as, Shallow, MaxEntries, MaxFaults)
  /\ target_path = << >>
  /\ path_str = << >>
  /\ pc = "start"
  /\ outcome = << >>
  /\ success_count = 0
  /\ error_count = 0
  /\ entries = << >>
  /\ tree = << >>
  /\ handles = << >>
  /\ awaited = 0
  /\ jobs = << >>
  /\ bar = [len |-> 0, pos |-> 0]
  /\ todo = {}
  /\ summary = "none"

\* --------------------------------------------------------------- the loop
\* The argument the loop is at.
cur == args[Len(outcome) + 1]

\* The end of one iteration of `for target_path in paths`: one of the two
\* counters goes up, `continue` or the end of the body moves to the next
\* argument, and after the last one the summary is due.
Finish(o, ok) ==
  /\ outcome' = Append(outcome, o)
  /\ success_count' = IF ok THEN success_count + 1 ELSE success_count
  /\ error_count' = IF ok THEN error_count ELSE error_count + 1
  /\ pc' = IF Len(outcome) + 1 < Len(args) THEN "start" ELSE "summary"

\* args.len() <= 1: the usage message and exit(1).
NoArgs ==
  /\ pc = "start"
  /\ args = << >>
  /\ pc' = "exited"
  /\ UNCHANGED <<fsVars, envVars, planVars, countVars, todo, summary>>

\* The missing path reported, but counted as a success.
TargetNotFound_miscounted ==
  /\ pc = "start"
  /\ args # << >>
  /\ ~path_exists(cur)
  /\ Finish("NotFound", TRUE)
  /\ UNCHANGED <<fsVars, envVars, planVars, todo, summary>>

\* !path.exists(): "Path does not exist", error_count += 1, continue.
TargetNotFound ==
  /\ pc = "start"
  /\ args # << >>
  /\ ~path_exists(cur)
  /\ Finish("NotFound", FALSE)
  /\ UNCHANGED <<fsVars, envVars, planVars, todo, summary>>

\* path.is_file(): set_writable(&path), whose unwrap()s panic on an error.
FileSetWritable ==
  /\ pc = "start"
  /\ args # << >>
  /\ path_exists(cur)
  /\ is_file(cur)
  /\ IF set_writable_ok(cur)
     THEN ro' = set_writable(ro, cur) /\ pc' = "file_delete"
     ELSE ro' = ro /\ pc' = "panicked"
  /\ UNCHANGED <<exists, envVars, planVars, countVars, todo, summary>>

\* Report with the error of delete_entry dropped, as the tasks drop it.
Report_ignoring(res) == Finish("Success", TRUE)

\* The error branch without its `continue`: after error_count += 1 the
\* body runs on to success_count += 1.
Report_falling_through(res) ==
  IF res = "err"
  THEN /\ outcome' = Append(outcome, "IoError")
       /\ error_count' = error_count + 1
       /\ success_count' = success_count + 1
       /\ pc' = IF Len(outcome) + 1 < Len(args) THEN "start" ELSE "summary"
  ELSE Finish("Success", TRUE)

\* if let Err(err) = delete_entry(&path) { ...; error_count += 1; continue; }
\* success_count += 1;
Report(res) ==
  IF res = "err" THEN Finish("IoError", FALSE) ELSE Finish("Success", TRUE)

\* delete_entry(&path) on the main thread: a directory goes to
\* remove_dir_all, which works node by node (MainRmStep), anything else to
\* remove_file.
MainDelete(p) ==
  IF is_dir(p)
  THEN pc' = "rm" /\ UNCHANGED <<exists, countVars>>
  ELSE IF remove_file_ok(p)
       THEN exists' = Removed(Last(p)) /\ Report("ok")
       ELSE exists' = exists /\ Report("err")

FileDelete ==
  /\ pc = "file_delete"
  /\ MainDelete(cur)
  /\ UNCHANGED <<ro, envVars, planVars, todo, summary>>

\* The else branch up to the pool: the scan, the progress bar, the buckets.
DirScan ==
  /\ pc = "start"
  /\ args # << >>
  /\ path_exists(cur)
  /\ ~is_file(cur)
  /\ LET got == ScanCollect(WalkItems(cur))
     IN  IF got.some
         THEN /\ entries' = got.val
              /\ bar' = [len |-> Len(got.val), pos |-> 0]
              /\ tree' = Bucketize(got.val)
              /\ handles' = << >>
              /\ awaited' = 0
              /\ jobs' = [j \in 1..Len(got.val) |-> [st |-> "new", hit |-> FALSE, res |-> "none"]]
              /\ pc' = "submit"
              /\ UNCHANGED countVars
         ELSE /\ Finish("ScanFailure", FALSE)
              /\ UNCHANGED planVars
  /\ UNCHANGED <<fsVars, envVars, todo, summary>>

\* The loop over tree.iter() without rev(): the shallowest depth first.
Submit_ascending ==
  /\ pc = "submit"
  /\ LET left == DOMAIN tree \ Range(handles)
     IN  IF left = {}
         THEN pc' = "await" /\ handles' = handles
         ELSE pc' = pc /\ handles' = Append(handles, Min(left))
  /\ UNCHANGED <<fsVars, envVars, countVars, entries, tree, awaited, jobs,
                 bar, todo, summary>>

\* for (_, entries) in tree.iter().rev(): one pool.evaluate per depth, the
\* deepest first.
Submit ==
  /\ pc = "submit"
  /\ LET left == DOMAIN tree \ Range(handles)
     IN  IF left = {}
         THEN pc' = "await" /\ handles' = handles
         ELSE pc' = pc /\ handles' = Append(handles, Max(left))
  /\ UNCHANGED <<fsVars, envVars, countVars, entries, tree, awaited, jobs,
                 bar, todo, summary>>

\* The task of depth d has run all its entries.
TaskDone(d) ==
  \A j \in 1..Len(entries) : entries[j].depth = d => jobs[j].st = "done"

\* The handles dropped without await_complete(): main goes on while tasks
\* may still run.
Await_unjoined ==
  /\ pc = "await"
  /\ IF awaited < Len(handles)
     THEN /\ awaited' = awaited + 1
          /\ pc' = pc
     ELSE /\ awaited' = awaited
          /\ pc' = "check"
  /\ UNCHANGED <<fsVars, envVars, countVars, entries, tree, handles, jobs,
                 bar, todo, summary>>

\* for handle in handles { handle.await_complete(); }
Await ==
  /\ pc = "await"
  /\ IF awaited < Len(handles)
     THEN /\ TaskDone(handles[awaited + 1])
          /\ awaited' = awaited + 1
          /\ pc' = pc
     ELSE /\ awaited' = awaited
          /\ pc' = "check"
  /\ UNCHANGED <<fsVars, envVars, countVars, entries, tree, handles, jobs,
                 bar, todo, summary>>

\* ------------------------------------------------------------ the tasks
\* The pool runs the tasks handed to it while main is still submitting or
\* already awaiting.
Running(j) ==
  /\ pc \in {"submit", "await"}
  /\ j \in 1..Len(entries)
  /\ entries[j].depth \in Range(handles)

\* Removing node n under the feet of the other tasks: a remove_dir_all that
\* is at work on a tree holding n may now fail with not-found.
Hit(js, n, self) ==
  [j \in DOMAIN js |->
     IF /\ j # self
        /\ js[j].st = "rm"
        /\ n \in Desc(Last(entries[j].path)) \cup {Last(entries[j].path)}
     THEN [js[j] EXCEPT !.hit = TRUE]
     ELSE js[j]]

\* let _ = delete_entry(entry); bar.inc(1);
\* delete_entry has returned res, which nothing reads, and the bar moves on.
EntryDone(js, j, res) == [js EXCEPT ![j].st = "done", ![j].res = res]

\* The bar moved only for an entry that was removed.
EntryTick_on_ok(b, res) == IF res = "ok" THEN bar_inc(b) ELSE b

EntryTick(b, res) == bar_inc(b)

\* delete_entry(entry) starts: a directory goes to remove_dir_all, anything
\* else (a path that is gone, too) to remove_file.
JobStart(j) ==
  /\ Running(j)
  /\ jobs[j].st = "new"
  /\ LET p == entries[j].path
     IN  IF is_dir(p)
         THEN /\ jobs' = [jobs EXCEPT ![j].st = "rm"]
              /\ UNCHANGED <<exists, bar>>
         ELSE IF remove_file_ok(p)
              THEN /\ exists' = Removed(Last(p))
                   /\ jobs' = EntryDone(Hit(jobs, Last(p), j), j, "ok")
                   /\ bar' = EntryTick(bar, "ok")
              ELSE /\ exists' = exists
                   /\ jobs' = EntryDone(jobs, j, "err")
                   /\ bar' = EntryTick(bar, "err")
  /\ UNCHANGED <<ro, envVars, countVars, pc, entries, tree, handles,
                 awaited, todo, summary>>

\* remove_dir_all(entry) turns to node n: a node it cannot remove ends it
\* with an error, the removal of the directory itself ends it with Ok.
JobRmStep(j, n) ==
  /\ Running(j)
  /\ jobs[j].st = "rm"
  /\ n \in Leaves(entries[j].path)
  /\ IF Blocked(n)
     THEN /\ exists' = exists
          /\ jobs' = EntryDone(jobs, j, "err")
          /\ bar' = EntryTick(bar, "err")
     ELSE /\ exists' = Removed(n)
          /\ IF n = Last(entries[j].path)
             THEN /\ jobs' = EntryDone(Hit(jobs, n, j), j, "ok")
                  /\ bar' = EntryTick(bar, "ok")
             ELSE /\ jobs' = Hit(jobs, n, j)
                  /\ bar' = bar
  /\ UNCHANGED <<ro, envVars, countVars, pc, entries, tree, handles,
                 awaited, todo, summary>>

\* remove_dir_all(entry) finds a node gone that another task removed, or
\* its own directory gone, and returns.
JobRmLost(j) ==
  /\ Running(j)
  /\ jobs[j].st = "rm"
  /\ jobs[j].hit \/ ~lpath_exists(entries[j].path)
  /\ jobs' = EntryDone(jobs, j, "err")
  /\ bar' = EntryTick(bar, "err")
  /\ UNCHANGED <<fsVars, envVars, countVars, pc, entries, tree, handles,
                 awaited, todo, summary>>

\* ------------------------------------------------- after the last handle
\* The root is gone, but the errors the tasks met are surfaced.
RootGone_counting_errors ==
  /\ pc = "check"
  /\ ~path_exists(cur)
  /\ IF \E j \in 1..Len(jobs) : jobs[j].res = "err"
     THEN Finish("IoError", FALSE)
     ELSE Finish("Success", TRUE)
  /\ UNCHANGED <<fsVars, envVars, planVars, todo, summary>>

\* path.exists() is false: success_count += 1.
RootGone ==
  /\ pc = "check"
  /\ ~path_exists(cur)
  /\ Finish("Success", TRUE)
  /\ UNCHANGED <<fsVars, envVars, planVars, todo, summary>>

\* path.exists() is true: set_folder_writable(&path) collects its entries.
RepairWalk ==
  /\ pc = "check"
  /\ path_exists(cur)
  /\ LET got == RepairCollect(WalkItems(cur))
     IN  IF got.exit
         THEN pc' = "exited" /\ todo' = todo
         ELSE pc' = "repair" /\ todo' = got.val
  /\ UNCHANGED <<fsVars, envVars, planVars, countVars, summary>>

\* entries.par_iter().for_each(|entry| set_writable(&entry.path())): a
\* panic of one set_writable ends the process.
RepairSet(p) ==
  /\ pc = "repair"
  /\ p \in todo
  /\ IF set_writable_ok(p)
     THEN ro' = set_writable(ro, p) /\ todo' = todo \ {p} /\ pc' = pc
     ELSE ro' = ro /\ todo' = todo /\ pc' = "panicked"
  /\ UNCHANGED <<exists, envVars, planVars, countVars, summary>>

\* The residual root reported without the last removal.
FinalDelete_skipped ==
  /\ pc = "repair"
  /\ todo = {}
  /\ Finish("IoError", FALSE)
  /\ UNCHANGED <<fsVars, envVars, planVars, todo, summary>>

\* if let Err(err) = delete_entry(&path) after set_folder_writable returned.
FinalDelete ==
  /\ pc = "repair"
  /\ todo = {}
  /\ MainDelete(cur)
  /\ UNCHANGED <<ro, envVars, planVars, todo, summary>>

\* A failed removal on the main thread sent back to the existence check:
\* repair and retry until the root is gone.
MainRmStep_retrying(n) ==
  /\ pc = "rm"
  /\ n \in Leaves(cur)
  /\ IF Blocked(n)
     THEN exists' = exists /\ pc' = "check" /\ UNCHANGED countVars
     ELSE /\ exists' = Removed(n)
          /\ IF n = Last(cur)
             THEN Report("ok")
             ELSE UNCHANGED <<countVars, pc>>
  /\ UNCHANGED <<ro, envVars, planVars, todo, summary>>

\* remove_dir_all on the main thread turns to node n.
MainRmStep(n) ==
  /\ pc = "rm"
  /\ n \in Leaves(cur)
  /\ IF Blocked(n)
     THEN exists' = exists /\ Report("err")
     ELSE /\ exists' = Removed(n)
          /\ IF n = Last(cur)
             THEN Report("ok")
             ELSE UNCHANGED <<countVars, pc>>
  /\ UNCHANGED <<ro, envVars, planVars, todo, summary>>

\* The final summary.
Summary ==
  /\ pc = "summary"
  /\ summary' = IF success_count > 0 /\ error_count = 0
                THEN "success" ELSE "mixed"
  /\ pc' = "done"
  /\ UNCHANGED <<fsVars, envVars, planVars, countVars, todo>>

Next ==
  \/ NoArgs
  \/ TargetNotFound
  \/ FileSetWritable
  \/ FileDelete
  \/ DirScan
  \/ Submit
  \/ Await
  \/ \E j \in 1..Len(entries) : JobStart(j)
  \/ \E j \in 1..Len(entries) : \E n \in Universe : JobRmStep(j, n)
  \/ \E j \in 1..Len(entries) : JobRmLost(j)
  \/ RootGone
  \/ RepairWalk
  \/ \E p \in Range(AllPaths) : RepairSet(p)
  \/ FinalDelete
  \/ \E n \in Universe : MainRmStep(n)
  \/ Summary

Spec == Init /\ [][Next]_vars

\* The main thread and the workers of the pool keep running: a step that
\* can be taken is taken at last.  Every step of Next moves the main thread
\* or one removal forward and none can be taken twice, so weak fairness of
\* Next is what a pool that runs every task handed to it amounts to.
FairSpec == Spec /\ WF_vars(Next)

\* ------------------------------------------------- the scan in every order
\* par_bridge() hands the items of the walk to the pool, so the Vec that is
\* collected holds them in no fixed order.  Nothing but the order inside a
\* bucket depends on it, and a bucket's entries are removed in parallel, so
\* DirScan above takes them in walk order; the specification below takes
\* every order, for larger trees, and follows the plan up to the last
\* pool.evaluate.
MaxScan == 5

Perms(n) ==
  {f \in [1..n -> 1..n] : \A i, k \in 1..n : f[i] = f[k] => i = k}

Reorder(s, f) == [i \in 1..Len(s) |-> s[f[i]]]

\* The else branch up to the pool, the entries collected in any order.
DirScanAnyOrder ==
  /\ pc = "start"
  /\ args # << >>
  /\ path_exists(cur)
  /\ ~is_file(cur)
  /\ LET got == ScanCollect(WalkItems(cur))
     IN  IF got.some
         THEN /\ \E f \in Perms(Len(got.val)) :
                   /\ entries' = Reorder(got.val, f)
                   /\ tree' = Bucketize(Reorder(got.val, f))
              /\ bar' = [len |-> Len(got.val), pos |-> 0]
              /\ handles' = << >>
              /\ awaited' = 0
              /\ jobs' = [j \in 1..Len(got.val) |-> [st |-> "new", hit |-> FALSE, res |-> "none"]]
              /\ pc' = "submit"
              /\ UNCHANGED countVars
         ELSE /\ Finish("ScanFailure", FALSE)
              /\ UNCHANGED planVars
  /\ UNCHANGED <<fsVars, envVars, todo, summary>>

\* One directory argument with up to MaxScan entries, at most one of them
\* unreadable for the walk.
InitScan ==
  /\ Start(<< <<"R">> >>, Deep, MaxScan, 1)
  /\ os = "unix"
  /\ ro = [n \in Universe |-> FALSE]
  /\ locked = {}
  /\ noperm = {}
  /\ target_path = << >>
  /\ path_str = << >>
  /\ pc = "start"
  /\ outcome = << >>
  /\ success_count = 0
  /\ error_count = 0
  /\ entries = << >>
  /\ tree = << >>
  /\ handles = << >>
  /\ awaited = 0
  /\ jobs = << >>
  /\ bar = [len |-> 0, pos |-> 0]
  /\ todo = {}
  /\ summary = "none"

NextScan ==
  \/ DirScanAnyOrder
  \/ Submit

SpecScan == InitScan /\ [][NextScan]_vars

\* ------------------------------------------------- the quotes of a path
\* Lines 95-100 on one argument.  A String is a sequence of bytes in UTF-8:
\* "q" is the double quote, "a" another ASCII character, "c1" "c2" the two
\* bytes of one character outside ASCII.
MaxStr == 5

Bytes == {"q", "a", "c1", "c2"}

\* The byte sequences that are UTF-8.
IsUtf8(b) ==
  /\ \A i \in 1..Len(b) : b[i] = "c1" => i < Len(b) /\ b[i + 1] = "c2"
  /\ \A i \in 1..Len(b) : b[i] = "c2" => i > 1 /\ b[i - 1] = "c1"

Strings ==
  {b \in UNION {[1..n -> Bytes] : n \in 0..MaxStr} : IsUtf8(b)}

\* str::is_char_boundary(i), i counting bytes from 0.
is_char_boundary(b, i) ==
  i = 0 \/ i = Len(b) \/ (i < Len(b) /\ b[i + 1] # "c2")

starts_with_quote(b) == Len(b) > 0 /\ b[1] = "q"

ends_with_quote(b) == Len(b) > 0 /\ b[Len(b)] = "q"

\* &b[from..to]: the index panics when from > to, when to is past the end
\* or when an end is inside a character.
slice(b, from, to) ==
  IF from <= to /\ to <= Len(b)
     /\ is_char_boundary(b, from) /\ is_char_boundary(b, to)
  THEN [panic |-> FALSE, val |-> SubSeq(b, from + 1, to)]
  ELSE [panic |-> TRUE, val |-> << >>]

\* if path_str.starts_with('"') && path_str.ends_with('"') {
\*     path_str = path_str[1..path_str.len() - 1].to_string(); }
StripQuotes ==
  /\ pc = "start"
  /\ IF starts_with_quote(target_path) /\ ends_with_quote(target_path)
     THEN LET got == slice(target_path, 1, Len(target_path) - 1)
          IN  IF got.panic
              THEN pc' = "panicked" /\ path_str' = path_str
              ELSE pc' = "stripped" /\ path_str' = got.val
     ELSE pc' = "stripped" /\ path_str' = target_path
  /\ UNCHANGED <<fsVars, ro0, os, locked, noperm, walkErr, args, target_path,
                 planVars, countVars, todo, summary>>

\* One argument of up to MaxStr bytes, and no file system to speak of.
InitQuotes ==
  /\ target_path \in Strings
  /\ path_str = << >>
  /\ args = << >>
  /\ exists = [n \in Universe |-> FALSE]
  /\ ro = [n \in Universe |-> FALSE]
  /\ ro0 = ro
  /\ os = "unix"
  /\ locked = {}
  /\ noperm = {}
  /\ walkErr = {}
  /\ pc = "start"
  /\ outcome = << >>
  /\ success_count = 0
  /\ error_count = 0
  /\ entries = << >>
  /\ tree = << >>
  /\ handles = << >>
  /\ awaited = 0
  /\ jobs = << >>
  /\ bar = [len |-> 0, pos |-> 0]
  /\ todo = {}
  /\ summary = "none"

NextQuotes == StripQuotes

SpecQuotes == InitQuotes /\ [][NextQuotes]_vars

\* ------------------------------------------------------------- the claims
NoFaults == locked = {} /\ noperm = {} /\ walkErr = {}

\* The main thread is inside the iteration of an argument.
InLoop == Len(outcome) < Len(args) /\ pc \notin {"summary", "done"}

\* The main thread is between the scan of a directory and its outcome.
InDir == pc \in {"submit", "await", "check", "repair", "rm"}

\* No path under root is left, and no node of its tree.
Gone(root) ==
  /\ ~path_exists(root)
  /\ \A p \in Range(AllPaths) : IsPrefix(root, p) => ~lpath_exists(p)
  /\ \A n \in Desc(Last(root)) \cup {Last(root)} : ~exists[n]

\* Nothing that a walk of root reaches is read-only.
AllWritable(root) ==
  \A p \in Range(AllPaths) :
     IsPrefix(root, p) /\ lpath_exists(p) => ~ro[Phys(p)]

\* A walk of root yields an error item.
WalkHasError(root) ==
  \E i \in 1..Len(WalkItems(root)) : ~WalkItems(root)[i].ok

DoneJobs == {j \in 1..Len(jobs) : jobs[j].st = "done"}

\* C1: whenever an argument is counted as a success, its path is gone, and
\* so is every path under it and every node of its tree, whatever the tasks
\* did in which order.
C1_SuccessMeansGone ==
  \A i \in 1..Len(outcome) : outcome[i] = "Success" => Gone(args[i])

C1_Witness ==
  /\ Len(outcome) = 1
  /\ outcome[1] = "Success"
  /\ args[1] = <<"R">>
  /\ Len(entries) >= 3
  /\ \E j \in 1..Len(jobs) : jobs[j].res = "err"

\* C2: when read-only attributes are all that is wrong with the tree (no
\* node is locked, unsettable or unwalkable) and the root is still there
\* after the last handle was awaited, then the repair pass neither panics
\* nor exits, every entry left is writable when the last removal starts, and
\* that removal ends the argument with Success and the root gone.
C2_RepairThenSuccess ==
  [][ (NoFaults /\ pc \in {"check", "repair", "rm"}
         /\ (pc = "check" => path_exists(cur)))
      => /\ pc' \notin {"panicked", "exited"}
         /\ (pc = "repair" /\ pc' # "repair" => pc' = "rm" /\ AllWritable(cur))
         /\ (Len(outcome') > Len(outcome)
               => /\ pc = "rm"
                  /\ outcome' = Append(outcome, "Success")
                  /\ success_count' = success_count + 1
                  /\ ~exists'[Last(cur)]) ]_vars

\* Scenario C: root, subdirectory and file all read-only, no task could
\* remove anything, and the argument ended in Success.
C2_Witness ==
  /\ Len(outcome) = 1
  /\ outcome[1] = "Success"
  /\ args[1] = <<"R">>
  /\ ro0["R"] /\ ro0["a"] /\ ro0["f"]
  /\ Len(jobs) = 3
  /\ \A j \in 1..Len(jobs) : jobs[j].res = "err"
  /\ Gone(<<"R">>)

\* C3: a directory whose tree has no read-only entry at the start, and no
\* locked node and no node whose permissions cannot be set, ends in Success
\* with the root gone in every interleaving of the tasks and of the
\* removals inside them; the process neither panics nor exits.
C3_AnyInterleavingSucceeds ==
  (locked = {} /\ noperm = {} /\ \A n \in Universe : ~ro0[n]) =>
     /\ pc # "panicked"
     /\ (pc = "exited" => args = << >>)
     /\ \A i \in 1..Len(outcome) :
          (args[i] = <<"R">> /\ \A k \in 1..(i - 1) : args[k] # <<"R">>)
             => outcome[i] = "Success" /\ Gone(args[i])

\* The removal of a deeper entry failed (its directory went first) and the
\* argument still ended in Success.
C3_Witness ==
  /\ NoFaults
  /\ \A n \in Universe : ~ro0[n]
  /\ Len(outcome) = 1
  /\ outcome[1] = "Success"
  /\ args[1] = <<"R">>
  /\ \E j \in 1..Len(jobs) : entries[j].depth = 2 /\ jobs[j].res = "err"

\* C4: the step taken for an argument whose path does not exist appends
\* NotFound, counts one error, and changes nothing else: no node, no
\* attribute, no scan, no bucket, no task, no tick of the bar.
C4_NotFoundTouchesNothing ==
  [][ (pc = "start" /\ args # << >> /\ ~path_exists(cur))
      => /\ outcome' = Append(outcome, "NotFound")
         /\ error_count' = error_count + 1
         /\ success_count' = success_count
         /\ UNCHANGED <<exists, ro, entries, tree, handles, awaited, jobs,
                        bar, todo>> ]_vars

C4_Witness ==
  /\ Len(outcome) = 2
  /\ args[1] = <<"R">>
  /\ outcome[1] = "Success"
  /\ args[2] = <<"R">>
  /\ outcome[2] = "NotFound"
  /\ error_count = 1

\* C5: while the argument is the existing file "F", no step touches the
\* scan, the buckets, the pool, the bar or the repair pass, no step changes
\* another node; the first step clears the file's read-only attribute and
\* removes nothing, the second removes the file with one remove_file (no
\* recursion) and counts a success exactly when the file is gone.
C5_SingleFile ==
  [][ (InLoop /\ cur = <<"F">> /\ exists["F"])
      => /\ UNCHANGED <<entries, tree, handles, awaited, jobs, bar, todo>>
         /\ pc' \notin {"submit", "await", "check", "repair", "rm"}
         /\ \A n \in Universe \ {"F"} :
               exists'[n] = exists[n] /\ ro'[n] = ro[n]
         /\ (pc = "start"
               => /\ exists' = exists
                  /\ pc' \in {"file_delete", "panicked"}
                  /\ (pc' = "file_delete" => ~ro'["F"]))
         /\ (pc = "file_delete"
               => /\ ~ro["F"]
                  /\ ro' = ro
                  /\ (~exists'["F"] <=> outcome' = Append(outcome, "Success"))
                  /\ ("F" \notin locked => ~exists'["F"])) ]_vars

\* A read-only file, on the system where the attribute blocks removal,
\* ended in Success.
C5_Witness ==
  /\ os = "windows"
  /\ ro0["F"]
  /\ Len(outcome) = 1
  /\ args[1] = <<"F">>
  /\ outcome[1] = "Success"
  /\ ~exists["F"]

\* C6: a single-file argument always ends in Success or in a counted
\* error: the process never dies while the argument is a file.
C6_FileErrorsAreReported ==
  ~(pc = "panicked" /\ InLoop /\ cur = <<"F">>)

\* C7: when the walk of a directory argument yields an error item, the
\* argument is counted as an error, and no plan is built and nothing is
\* removed for it.
C7_ScanErrorFailsTarget ==
  [][ (pc = "start" /\ args # << >> /\ path_exists(cur) /\ ~is_file(cur)
         /\ WalkHasError(cur))
      => /\ outcome' = Append(outcome, "ScanFailure")
         /\ error_count' = error_count + 1
         /\ UNCHANGED <<exists, entries, tree, handles, jobs>> ]_vars

\* C8: when the walk of the repair pass yields an error item, the pass is
\* over: it does not go on to clear the attributes of the other entries.
C8_RepairWalkErrorIsFatal ==
  [][ (pc = "check" /\ path_exists(cur) /\ WalkHasError(cur))
      => pc' # "repair" /\ todo' = {} ]_vars

\* C9: when set_writable fails inside the repair pass, the last removal of
\* the root is still attempted: the process does not die with entries of the
\* pass unprocessed.
C9_RepairFailureStillRetries ==
  ~(pc = "panicked" /\ InLoop /\ cur = <<"R">> /\ todo # {})

\* C10: while a directory is processed the bar's length is the number of
\* scanned entries and its position the number of entries whose removal has
\* returned, Ok or Err; once every handle is awaited the position equals the
\* length; and every step leaves the position or raises it by one, raising
\* it exactly when a removal returns.
C10_Progress ==
  /\ [](InDir => /\ bar.len = Len(entries)
                 /\ bar.pos = Cardinality(DoneJobs)
                 /\ (pc \in {"check", "repair", "rm"} => bar.pos = bar.len))
  /\ [][ (InDir /\ InDir')
         => /\ bar'.len = bar.len
            /\ bar'.pos >= bar.pos
            /\ bar'.pos - bar.pos =
                 Cardinality({j \in 1..Len(jobs) :
                                jobs[j].st # "done" /\ jobs'[j].st = "done"})
     ]_vars

\* Every handle awaited, one removal returned Ok, another Err.
C10_Witness ==
  /\ pc = "check"
  /\ Len(entries) >= 3
  /\ bar.pos = Len(entries)
  /\ \E j \in 1..Len(jobs) : jobs[j].res = "ok"
  /\ \E j \in 1..Len(jobs) : jobs[j].res = "err"

\* The paths the walk of root yields as entries of depth d.
WalkedAt(root, d) ==
  {WalkItems(root)[i].path :
     i \in {k \in 1..Len(WalkItems(root)) :
              WalkItems(root)[k].ok /\ WalkItems(root)[k].depth = d}}

\* C11: the depths of the plan are 0..N; the handles are pushed in strictly
\* descending depth, every depth still to be submitted lies below all that
\* were, and when the loop is over there is exactly one handle per depth,
\* depth N first and depth 0 last; and in whatever order the scan delivered
\* the entries, the bucket of a depth holds the same set of paths, the
\* paths the walk yields at that depth.
C11_DescendingSubmission ==
  pc \in {"submit", "await"} =>
     /\ DOMAIN tree = 0..Max(DOMAIN tree)
     /\ \A i, k \in 1..Len(handles) : i < k => handles[i] > handles[k]
     /\ \A i \in 1..Len(handles) :
          /\ handles[i] \in DOMAIN tree
          /\ \A d \in DOMAIN tree \ Range(handles) : d < handles[i]
     /\ (pc = "await"
           => /\ Len(handles) = Cardinality(DOMAIN tree)
              /\ Range(handles) = DOMAIN tree
              /\ handles[1] = Max(DOMAIN tree)
              /\ handles[Len(handles)] = 0)
     /\ \A d \in 0..MaxScan :
          IF WalkedAt(cur, d) = {}
          THEN d \notin DOMAIN tree
          ELSE d \in DOMAIN tree /\ Range(tree[d]) = WalkedAt(cur, d)

\* Three depths submitted, the scan having delivered a deepest entry first
\* and the root last.
C11_Witness ==
  /\ pc = "await"
  /\ handles = <<2, 1, 0>>
  /\ Len(entries) = MaxScan
  /\ entries[1].depth = 2
  /\ entries[Len(entries)].depth = 0

\* C12: from the existence check of the root to the outcome of the
\* directory, every depth has its handle, every handle has been awaited and
\* the removal of every scanned entry has returned: no task of the
\* directory runs while the root is checked, repaired or removed at last.
C12_Barrier ==
  pc \in {"check", "repair", "rm"} =>
     /\ Range(handles) = DOMAIN tree
     /\ awaited = Len(handles)
     /\ \A j \in 1..Len(entries) :
          /\ jobs[j].st = "done"
          /\ jobs[j].res \in {"ok", "err"}
          /\ ~Running(j)

\* The root is found still there after three tasks were joined, one of
\* whose removals worked node by node.
C12_Witness ==
  /\ pc = "check"
  /\ Len(handles) = 3
  /\ path_exists(cur)
  /\ \E j \in 1..Len(jobs) : jobs[j].res = "err" /\ is_dir(entries[j].path)

\* C13: while the tasks of a directory run nothing is counted; the step
\* that ends the directory records IoError exactly when it is the final
\* removal after the repair pass and leaves the root on disk, and Success
\* in every other case (the root found gone after the last handle, or
\* removed by the final removal), whatever delete_entry returned in the
\* tasks.
C13_OnlyFinalRemovalCounts ==
  [][ /\ (pc \in {"submit", "await"} => UNCHANGED countVars)
      /\ (InDir /\ Len(outcome') # Len(outcome)
            => /\ pc \in {"check", "repair", "rm"}
               /\ (pc = "check" => ~path_exists(cur))
               /\ outcome' =
                    Append(outcome,
                           IF pc \in {"repair", "rm"} /\ exists'[Last(cur)]
                           THEN "IoError" ELSE "Success")
               /\ (outcome'[Len(outcome')] = "IoError"
                     <=> error_count' = error_count + 1)
               /\ (outcome'[Len(outcome')] = "Success"
                     <=> success_count' = success_count + 1)) ]_vars

\* A locked file: both removals of the fan-out failed, the repair pass ran,
\* the final removal failed and only that was counted.
C13_Witness ==
  /\ Len(outcome) = 1
  /\ args[1] = <<"R">>
  /\ outcome[1] = "IoError"
  /\ error_count = 1
  /\ locked = {"g"}
  /\ Len(jobs) = 2
  /\ \A j \in 1..Len(jobs) : jobs[j].res = "err"

\* C14: the existence check is reached only from the barrier and left at
\* once: with the root gone it records Success and no attribute, node or
\* repair list is touched; with the root there it starts the repair pass.
\* The repair pass is entered only from the check and the final removal
\* only from the repair pass, when that has made every entry writable;
\* nothing is removed during the pass; and the final removal, failed or
\* not, ends the directory: nothing leads back to the check or the pass.
C14_OneRepairCycle ==
  [][ /\ (pc = "check" /\ ~path_exists(cur)
            => /\ outcome' = Append(outcome, "Success")
               /\ pc' \in {"start", "summary"}
               /\ UNCHANGED <<exists, ro, todo>>)
      /\ (pc = "check" /\ path_exists(cur)
            => /\ pc' = "repair"
               /\ UNCHANGED <<exists, ro, countVars>>)
      /\ (pc' = "check" => pc = "await")
      /\ (pc' = "repair" => pc \in {"check", "repair"})
      /\ (pc' = "rm" => pc \in {"repair", "rm"})
      /\ (pc = "repair" /\ (exists' # exists \/ pc' \in {"rm", "start", "summary"})
            => todo = {})
      /\ (pc = "repair" /\ todo = {}
            => pc' = "rm" \/ Len(outcome') = Len(outcome) + 1)
      /\ (pc = "rm" /\ pc' # "rm"
            => /\ Len(outcome') = Len(outcome) + 1
               /\ pc' \in {"start", "summary"})
      /\ (InDir /\ ro' # ro => pc = "repair") ]_vars

\* The repair pass ran (the root lost its read-only attribute), the final
\* removal failed on a locked file, and the run went on to its summary with
\* the root still on disk.
C14_Witness ==
  /\ pc = "done"
  /\ Len(outcome) = 1
  /\ args[1] = <<"R">>
  /\ outcome[1] = "IoError"
  /\ ro0["R"] /\ ~ro["R"]
  /\ exists["R"]

\* The scan found the root and, below it, nothing but files at depth 1.
FlatPlan ==
  /\ Len(entries) >= 2
  /\ \A j \in 1..Len(entries) :
        IF entries[j].depth = 0
        THEN entries[j].path = <<"R">>
        ELSE entries[j].depth = 1 /\ Kind(Last(entries[j].path)) = "file"

\* The first argument that names "R" has been processed.
FirstR(i) ==
  /\ i \in 1..Len(outcome)
  /\ args[i] = <<"R">>
  /\ \A k \in 1..(i - 1) : args[k] # <<"R">>

\* C15 as stated: for a root with nothing but files at depth 1 and no
\* faulty node, the plan is the single bucket of depth 1, the root is in no
\* bucket, and the directory ends in Success with everything removed.
C15_SingleBucket ==
  (NoFaults /\ FlatPlan) =>
     /\ DOMAIN tree = {1}
     /\ \A d \in DOMAIN tree : <<"R">> \notin Range(tree[d])
     /\ \A i \in 1..Len(outcome) :
          FirstR(i) => outcome[i] = "Success" /\ Gone(<<"R">>)

\* C15 amended: for a root with nothing but files at depth 1 and no faulty
\* node, the plan has two buckets, the one of depth 1 with every file and
\* the one of depth 0 with the root itself; both are handed to the pool,
\* depth 1 first; and the directory ends in Success with everything
\* removed.
C15_TwoBuckets ==
  (NoFaults /\ FlatPlan) =>
     /\ DOMAIN tree = {0, 1}
     /\ tree[0] = << <<"R">> >>
     /\ Len(tree[1]) = Len(entries) - 1
     /\ Range(tree[1]) =
          {entries[j].path : j \in {k \in 1..Len(entries) : entries[k].depth = 1}}
     /\ \A n \in Universe :
          Parent(n) = "R" /\ exists[n] => <<"R", n>> \in Range(tree[1])
     /\ (pc \in {"await", "check", "repair", "rm"} => handles = <<1, 0>>)
     /\ pc # "panicked"
     /\ \A i \in 1..Len(outcome) :
          FirstR(i) => outcome[i] = "Success" /\ Gone(<<"R">>)

\* Three files: the task of depth 0 removed the root itself, after the
\* three removals of depth 1 had succeeded.
C15_Witness ==
  /\ NoFaults
  /\ FlatPlan
  /\ Len(entries) = 4
  /\ outcome = <<"Success">>
  /\ \A j \in 1..Len(jobs) : jobs[j].res = "ok"
  /\ \E j \in 1..Len(jobs) : entries[j].depth = 0

\* C16: under fair scheduling every argument whose path exists ends in
\* Success or in a counted failure: from the moment the loop turns to it,
\* its outcome is recorded at last.
C16_TargetsTerminate ==
  \A k \in 0..(MaxArgs - 1) :
     (pc = "start" /\ Len(outcome) = k /\ k < Len(args) /\ path_exists(cur))
        ~> (Len(outcome) > k /\ outcome[k + 1] \in {"Success", "IoError"})

\* The places of the plan: a depth and an index into its bucket.
Places == UNION {{<<d, i>> : i \in 1..Len(tree[d])} : d \in DOMAIN tree}

\* C17: once the buckets are built, every scanned entry has its path at
\* exactly one place of the plan, and that place is in the bucket of the
\* entry's depth; every place holds the path of a scanned entry; and the
\* plan has as many places as the scan has entries, so that the entries of
\* one depth are all in one bucket and none is lost or there twice.
C17_BucketsPartitionScan ==
  pc \in {"submit", "await"} =>
     /\ \A j \in 1..Len(entries) :
          /\ Cardinality({pl \in Places :
                            tree[pl[1]][pl[2]] = entries[j].path}) = 1
          /\ \A pl \in Places :
               tree[pl[1]][pl[2]] = entries[j].path => pl[1] = entries[j].depth
     /\ \A pl \in Places :
          \E j \in 1..Len(entries) : entries[j].path = tree[pl[1]][pl[2]]
     /\ Cardinality(Places) = Len(entries)
     /\ \A d \in DOMAIN tree : tree[d] # << >>

\* Three entries of depth 1, delivered by the scan in another order than
\* the walk's, share a bucket.
C17_Witness ==
  /\ pc = "submit"
  /\ Len(entries) = MaxScan
  /\ 1 \in DOMAIN tree
  /\ Len(tree[1]) = 3
  /\ entries[1].depth = 1
  /\ entries[2].depth = 2
  /\ entries[3].depth = 1

\* C18: no step removes the directory "O" that the link "l" points to, or
\* the file "x" inside it, or changes the attributes of either: they lie
\* outside "R", which is the only directory ever named on the command line.
C18_OutsideUntouched ==
  [][ /\ exists'["O"] = exists["O"]
      /\ exists'["x"] = exists["x"]
      /\ ro'["O"] = ro["O"]
      /\ ro'["x"] = ro["x"] ]_vars

\* C19: at every moment the two counters add up to the number of arguments
\* whose iteration is over, success_count being the number of those that
\* ended in Success and error_count the number of the others; the loop
\* turns to an argument only when all before it are accounted for, failed
\* or not; and the summary is printed only when every argument is, so that
\* the sum is then the number of paths supplied.
C19_Accounting ==
  /\ success_count + error_count = Len(outcome)
  /\ success_count =
       Cardinality({i \in 1..Len(outcome) : outcome[i] = "Success"})
  /\ error_count =
       Cardinality({i \in 1..Len(outcome) : outcome[i] # "Success"})
  /\ Len(outcome) <= Len(args)
  /\ (pc \in {"start", "file_delete", "submit", "await", "check", "repair", "rm"}
        /\ args # << >> => Len(outcome) < Len(args))
  /\ (pc \in {"summary", "done"}
        => /\ Len(outcome) = Len(args)
           /\ success_count + error_count = Len(args))
  /\ (summary # "none" => pc = "done")

\* A locked file failed first, the directory after it was still processed,
\* and the summary came with one success and one error.
C19_Witness ==
  /\ pc = "done"
  /\ args = << <<"F">>, <<"R">> >>
  /\ outcome = <<"IoError", "Success">>
  /\ success_count = 1
  /\ error_count = 1
  /\ summary = "mixed"

\* C20: stripping never aborts, whatever the argument, and it yields the
\* argument without its first and last character when the argument starts
\* and ends with a double quote, and the argument itself otherwise.
C20_StripIsTotal ==
  /\ pc # "panicked"
  /\ (pc = "stripped"
        => path_str =
             IF starts_with_quote(target_path) /\ ends_with_quote(target_path)
             THEN [i \in 1..(Len(target_path) - 2) |-> target_path[i + 1]]
             ELSE target_path)

====
